---- MODULE Spec2Model ----
(***************************************************************************)
(* Ticket inventory and payment fulfillment of ticketprozw.                *)
(*                                                                         *)
(* The database tables are sequences of rows (a row's id is its index).    *)
(* Every synchronous handler that reads and commits once is one action;    *)
(* create_ticket takes a row lock (SELECT ... FOR UPDATE) and is split at  *)
(* the lock, and stripe_webhook commits several times and is split at its  *)
(* commits.                                                                *)
(***************************************************************************)
EXTENDS Integers, Sequences, FiniteSets, TLC

\* ---------------------------------------------------------------- bounds
MaxTicketTypes == 1
MaxOrders      == 2
MaxTickets     == 2
MaxIntents     == 1
MaxQuantity    == 2
NumCallers     == 2
ReserveCallers == 3
ReserveQuantity == 4
\* length of the ticket type names the QR codec is given
TypeNameLen == 2
\* calls of Stripe's create-intent by concurrent create_payment_intent requests
IntentCalls == 3

\* ------------------------------------------------------- fixed fixtures
\* users table: id -> role (models/users.py role column)
Users == 1..3

Role(u) == CASE u = 1 -> "user" [] u = 2 -> "organizer" [] u = 4 -> "organizer"
             [] OTHER -> "admin"

\* events table: one event, organised by user 2
EventIds == {1}

\* event ids a request may name: the existing event and a missing one
EventInputs == {1, 2}

organizer_id(e) == 2

\* ticket type names a request may carry
Names == {"GA"}

Callers == 1..NumCallers

NULL == 0

VARIABLES
    ticket_types,   \* rows of table ticket_types
    tickets,        \* rows of table tickets
    orders,         \* rows of table orders
    transactions,   \* rows of table payment_transactions
    intents,        \* number of payment intents Stripe has issued (ids 1..intents)
    pc,             \* per caller: the create_ticket request in flight
    wh,             \* the stripe_webhook request in flight
    emails,         \* e-mails the current or last stripe_webhook request dispatched
    response,       \* the status the last finished request answered with
    cpi,            \* per caller: the create_payment_intent request in flight
    scan,           \* the last validate_ticket request: payload, decoding, answer
    gate            \* per caller: the check_in_ticket or cancel_ticket request in flight

vars == <<ticket_types, tickets, orders, transactions, intents, pc, wh,
          emails, response, cpi, scan, gate>>

\* what the inventory, order, venue and webhook handlers never touch
aux == <<cpi, scan, gate>>

db == <<ticket_types, tickets, orders, transactions>>

\* ------------------------------------------------------------ helpers
Ids(table) == 1..Len(table)

IdlePc == [state |-> "idle", order_id |-> NULL, ticket_type_id |-> NULL,
           available |-> 0, sold |-> 0]

IdleWh == [phase |-> "idle", order_id |-> NULL, dup |-> FALSE, mail_ok |-> TRUE]

\* the caller that holds the FOR UPDATE row lock of ticket type t, if any
LockHolders(t) == {p \in DOMAIN pc : pc[p].state = "locked" /\ pc[p].ticket_type_id = t}

RowLockFree(t) == LockHolders(t) = {}

IdleCpi == [state |-> "idle", order_id |-> NULL, existing |-> NULL]

NotDecoded == [kind |-> "none"]

IdleGate == [state |-> "idle", ticket_id |-> NULL, user |-> NULL]

NoScan == [fields |-> <<>>, payload |-> <<>>, event_id |-> NULL,
           decoded |-> NotDecoded, answer |-> "none"]

Init ==
    /\ ticket_types = <<>>
    /\ tickets = <<>>
    /\ orders = <<>>
    /\ transactions = <<>>
    /\ intents = 0
    /\ pc = [p \in Callers |-> IdlePc]
    /\ wh = IdleWh
    /\ emails = 0
    /\ response = "none"
    /\ cpi = [p \in Callers |-> IdleCpi]
    /\ scan = NoScan
    /\ gate = [p \in Callers |-> IdleGate]

\* ------------------------------------------------- ticket type endpoints
\* POST /tickets/types
create_ticket_type(u, e, name, quantity) ==
    /\ Len(ticket_types) < MaxTicketTypes
    /\ UNCHANGED <<tickets, orders, transactions, intents, pc, wh, emails>>
    /\ IF e \notin EventIds
       THEN /\ response' = "NotFound"
            /\ UNCHANGED ticket_types
       ELSE IF Role(u) # "admin" /\ organizer_id(e) # u
       THEN /\ response' = "Forbidden"
            /\ UNCHANGED ticket_types
       ELSE IF \E t \in Ids(ticket_types) :
                  /\ ticket_types[t].event_id = e
                  /\ ticket_types[t].name = name
                  /\ ~ticket_types[t].deleted
       THEN /\ response' = "BadRequest"
            /\ UNCHANGED ticket_types
       ELSE /\ ticket_types' = Append(ticket_types,
                   [event_id |-> e, name |-> name, quantity |-> quantity,
                    available_quantity |-> quantity, sold_quantity |-> 0,
                    deleted |-> FALSE])
            /\ response' = "Created"
    /\ UNCHANGED aux


\* a field the request leaves unset (exclude_unset drops it from the update)
UnsetName == "unset"

UnsetQuantity == 0

SetField(row, field, value, unset) ==
    IF value = unset THEN row ELSE [row EXCEPT ![field] = value]

\* PUT /tickets/types/{id}: model_dump(exclude_unset=True) + setattr; the
\* schema TicketTypeUpdate carries name, description, price and quantity only
update_ticket_type(u, t, name, quantity) ==
    /\ UNCHANGED <<tickets, orders, transactions, intents, pc, wh, emails>>
    /\ IF t \notin Ids(ticket_types) \/ ticket_types[t].deleted
       THEN /\ response' = "NotFound"
            /\ UNCHANGED ticket_types
       ELSE IF Role(u) # "admin" /\ organizer_id(ticket_types[t].event_id) # u
       THEN /\ response' = "Forbidden"
            /\ UNCHANGED ticket_types
       ELSE /\ RowLockFree(t)    \* the UPDATE waits for a FOR UPDATE holder
            /\ ticket_types' = [ticket_types EXCEPT ![t] =
                   SetField(SetField(@, "name", name, UnsetName),
                            "quantity", quantity, UnsetQuantity)]
            /\ response' = "OK"
    /\ UNCHANGED aux

\* DELETE /tickets/types/{id}: soft delete
delete_ticket_type(u, t) ==
    /\ UNCHANGED <<tickets, orders, transactions, intents, pc, wh, emails>>
    /\ IF t \notin Ids(ticket_types) \/ ticket_types[t].deleted
       THEN /\ response' = "NotFound"
            /\ UNCHANGED ticket_types
       ELSE IF Role(u) # "admin" /\ organizer_id(ticket_types[t].event_id) # u
       THEN /\ response' = "Forbidden"
            /\ UNCHANGED ticket_types
       ELSE /\ RowLockFree(t)
            /\ ticket_types' = [ticket_types EXCEPT ![t].deleted = TRUE]
            /\ response' = "OK"
    /\ UNCHANGED aux

\* --------------------------------------------------------- order endpoints
\* payment_status values a create_order request may carry (PaymentStatus enum)
StatusInputs == {"pending", "completed"}

\* the users who place orders
Buyers == {1}

\* POST /orders: the order's date is the time of the request, so the
\* duplicate check (same user, event and date) never matches
create_order(u, e, payment_status) ==
    /\ Len(orders) < MaxOrders
    /\ UNCHANGED <<ticket_types, tickets, transactions, intents, pc, wh, emails>>
    /\ IF e \notin EventIds
       THEN /\ response' = "NotFound"
            /\ UNCHANGED orders
       ELSE /\ orders' = Append(orders,
                   [user_id |-> u, event_id |-> e, total_price |-> 1,
                    payment_status |-> payment_status, deleted |-> FALSE])
            /\ response' = "Created"
    /\ UNCHANGED aux

\* the values of the PaymentStatus enum, which OrderCreate and OrderUpdate
\* accept as payment_status
PaymentStatusInputs == {"pending", "completed", "failed", "refunded", "cancelled"}

\* PUT /orders/{id}: OrderUpdate carries payment_status and nothing else
update_order(u, o, payment_status) ==
    /\ IF o \notin Ids(orders) \/ orders[o].deleted
       THEN /\ response' = "NotFound"
            /\ UNCHANGED orders
       ELSE IF orders[o].user_id # u /\ Role(u) # "admin"
       THEN /\ response' = "Forbidden"
            /\ UNCHANGED orders
       ELSE IF orders[o].payment_status \in {"completed", "cancelled", "refunded"}
       THEN /\ response' = "BadRequest"
            /\ UNCHANGED orders
       ELSE /\ orders' = [orders EXCEPT ![o].payment_status = payment_status]
            /\ response' = "OK"
    /\ UNCHANGED <<ticket_types, tickets, transactions, intents, pc, wh, emails, aux>>

\* DELETE /orders/{id}: soft delete of the order row and status cancelled
cancel_order(u, o) ==
    /\ IF o \notin Ids(orders) \/ orders[o].deleted
       THEN /\ response' = "NotFound"
            /\ UNCHANGED orders
       ELSE IF orders[o].user_id # u /\ Role(u) # "admin"
       THEN /\ response' = "Forbidden"
            /\ UNCHANGED orders
       ELSE IF orders[o].payment_status = "completed"
       THEN /\ response' = "BadRequest"
            /\ UNCHANGED orders
       ELSE /\ orders' = [orders EXCEPT ![o].deleted = TRUE,
                                        ![o].payment_status = "cancelled"]
            /\ response' = "OK"
    /\ UNCHANGED <<ticket_types, tickets, transactions, intents, pc, wh, emails, aux>>

\* -------------------------------------------------------- ticket endpoints
NoQR == <<>>

\* the row create_ticket inserts: Tickets(order_id, ticket_type_id, ...) with
\* the column defaults
NewTicket(o, t) ==
    [order_id |-> o, ticket_type_id |-> t, qr_code_data |-> NoQR,
     checked_in |-> FALSE, checked_out |-> FALSE, validated_at |-> NULL,
     validated_by |-> NULL, deleted |-> FALSE]

InFlight == {p \in DOMAIN pc : pc[p].state # "idle"}

\* POST /tickets, first part: the order lookup and the authorization check
ct_start(p, u, o, t) ==
    /\ pc[p].state = "idle"
    /\ Len(tickets) + Cardinality(InFlight) < MaxTickets
    /\ UNCHANGED <<db, intents, wh, emails>>
    /\ IF o \notin Ids(orders) \/ orders[o].deleted
       THEN /\ pc' = [pc EXCEPT ![p] = IdlePc]
            /\ response' = "NotFound"
       ELSE IF orders[o].user_id # u /\ Role(u) # "admin"
       THEN /\ pc' = [pc EXCEPT ![p] = IdlePc]
            /\ response' = "Forbidden"
       ELSE /\ pc' = [pc EXCEPT ![p] = [IdlePc EXCEPT !.state = "checked",
                                        !.order_id = o, !.ticket_type_id = t]]
            /\ UNCHANGED response
    /\ UNCHANGED aux

\* a query without with_for_update(): it reads without waiting for the lock
LockGrantedUnlocked(t) == TRUE

\* the row lock a with_for_update() query has to be granted before it reads
LockGranted(t) == RowLockFree(t)

\* the inventory check left out
SoldOutNever(row) == FALSE

\* the inventory check off by one (available_quantity < 0)
SoldOutOffByOne(row) == row.available_quantity < 0

\* the inventory check of create_ticket on the row read under the lock
SoldOut(row) == row.available_quantity < 1

\* POST /tickets, second part: SELECT ... FOR UPDATE of the ticket type and
\* the inventory check; a request that raises here closes its session, which
\* releases the lock
ct_lock(p) ==
    LET t == pc[p].ticket_type_id IN
    /\ pc[p].state = "checked"
    /\ UNCHANGED <<db, intents, wh, emails, aux>>
    /\ IF t \notin Ids(ticket_types) \/ ticket_types[t].deleted
       THEN /\ pc' = [pc EXCEPT ![p] = IdlePc]
            /\ response' = "NotFound"
       ELSE /\ LockGranted(t)
            /\ IF SoldOut(ticket_types[t])
               THEN /\ pc' = [pc EXCEPT ![p] = IdlePc]
                    /\ response' = "SoldOut"
               ELSE /\ pc' = [pc EXCEPT ![p].state = "locked",
                                        ![p].available = ticket_types[t].available_quantity,
                                        ![p].sold = ticket_types[t].sold_quantity]
                    /\ UNCHANGED response

\* POST /tickets, third part: the decrement computed from the values read
\* under the lock, the INSERT and the commit, which releases the lock
ct_commit(p) ==
    LET t == pc[p].ticket_type_id IN
    /\ pc[p].state = "locked"
    /\ ticket_types' = [ticket_types EXCEPT
                           ![t].available_quantity = pc[p].available - 1,
                           ![t].sold_quantity = pc[p].sold + 1]
    /\ tickets' = Append(tickets, NewTicket(pc[p].order_id, t))
    /\ pc' = [pc EXCEPT ![p] = IdlePc]
    /\ response' = "Created"
    /\ UNCHANGED <<orders, transactions, intents, wh, emails, aux>>

\* DELETE /tickets/{id}: soft delete of the ticket row only
\* a cancel_ticket without the test of checked_in
cancel_used_ticket(u, k) ==
    /\ UNCHANGED <<ticket_types, orders, transactions, intents, pc, wh, emails>>
    /\ IF k \notin Ids(tickets) \/ tickets[k].deleted
       THEN /\ response' = "NotFound"
            /\ UNCHANGED tickets
       ELSE IF orders[tickets[k].order_id].user_id # u /\ Role(u) # "admin"
       THEN /\ response' = "Forbidden"
            /\ UNCHANGED tickets
       ELSE /\ tickets' = [tickets EXCEPT ![k].deleted = TRUE]
            /\ response' = "OK"
    /\ UNCHANGED aux

cancel_ticket(u, k) ==
    /\ UNCHANGED <<ticket_types, orders, transactions, intents, pc, wh, emails>>
    /\ IF k \notin Ids(tickets) \/ tickets[k].deleted
       THEN /\ response' = "NotFound"
            /\ UNCHANGED tickets
       ELSE IF orders[tickets[k].order_id].user_id # u /\ Role(u) # "admin"
       THEN /\ response' = "Forbidden"
            /\ UNCHANGED tickets
       ELSE IF tickets[k].checked_in
       THEN /\ response' = "BadRequest"
            /\ UNCHANGED tickets
       ELSE /\ tickets' = [tickets EXCEPT ![k].deleted = TRUE]
            /\ response' = "OK"
    /\ UNCHANGED aux


\* ------------------------------------------------------ venue endpoints
\* a check-in that does not look at checked_in
AlreadyCheckedInNever(row) == FALSE

\* check_in_ticket: "if ticket.checked_in"
AlreadyCheckedIn(row) == row.checked_in

\* a check-in that does not look at the order's payment
PaymentConfirmedAlways(o) == TRUE

\* check_in_ticket: the order's payment_status is "completed"
PaymentConfirmed(o) == o \in Ids(orders) /\ orders[o].payment_status = "completed"

\* a handler that lets every organizer act on every event
MayValidateAnyEvent(u, e) == TRUE

\* check_in_ticket and check_out_ticket: an admin passes, an organizer only
\* for an event of their own
MayValidate(u, e) == Role(u) = "admin" \/ organizer_id(e) = u

\* POST /validation/checkin (require_role admin or organizer)
check_in_ticket(u, k) ==
    /\ IF Role(u) \notin {"admin", "organizer"}
       THEN /\ response' = "Forbidden"
            /\ UNCHANGED tickets
       ELSE IF k \notin Ids(tickets) \/ tickets[k].deleted
       THEN /\ response' = "NotFound"
            /\ UNCHANGED tickets
       ELSE IF AlreadyCheckedIn(tickets[k])
       THEN /\ response' = "AlreadyCheckedIn"
            /\ UNCHANGED tickets
       ELSE IF ~PaymentConfirmed(tickets[k].order_id)
       THEN /\ response' = "PaymentNotConfirmed"
            /\ UNCHANGED tickets
       ELSE IF ~MayValidate(u, orders[tickets[k].order_id].event_id)
       THEN /\ response' = "Forbidden"
            /\ UNCHANGED tickets
       ELSE /\ tickets' = [tickets EXCEPT ![k].checked_in = TRUE,
                                          ![k].validated_at = 1,
                                          ![k].validated_by = u]
            /\ response' = "OK"
    /\ UNCHANGED <<ticket_types, orders, transactions, intents, pc, wh, emails>>
    /\ UNCHANGED aux

\* The same handler as it runs in a worker thread with a session of its own:
\* the ticket and its order are read and checked first ...
ci_start(p, u, k) ==
    /\ gate[p].state = "idle"
    /\ IF Role(u) \notin {"admin", "organizer"}
       THEN /\ response' = "Forbidden"
            /\ UNCHANGED gate
       ELSE IF k \notin Ids(tickets) \/ tickets[k].deleted
       THEN /\ response' = "NotFound"
            /\ UNCHANGED gate
       ELSE IF AlreadyCheckedIn(tickets[k])
       THEN /\ response' = "AlreadyCheckedIn"
            /\ UNCHANGED gate
       ELSE IF ~PaymentConfirmed(tickets[k].order_id)
       THEN /\ response' = "PaymentNotConfirmed"
            /\ UNCHANGED gate
       ELSE IF ~MayValidate(u, orders[tickets[k].order_id].event_id)
       THEN /\ response' = "Forbidden"
            /\ UNCHANGED gate
       ELSE /\ gate' = [gate EXCEPT ![p] =
                           [state |-> "checkin", ticket_id |-> k, user |-> u]]
            /\ UNCHANGED response
    /\ UNCHANGED <<ticket_types, tickets, orders, transactions, intents, pc,
                   wh, emails, cpi, scan>>

\* ... then the three columns are set and committed: the UPDATE writes the
\* columns this session changed, whatever the row holds by now
ci_commit(p) ==
    /\ gate[p].state = "checkin"
    /\ tickets' = [tickets EXCEPT ![gate[p].ticket_id].checked_in = TRUE,
                                  ![gate[p].ticket_id].validated_at = 1,
                                  ![gate[p].ticket_id].validated_by = gate[p].user]
    /\ gate' = [gate EXCEPT ![p] = IdleGate]
    /\ response' = "OK"
    /\ UNCHANGED <<ticket_types, orders, transactions, intents, pc, wh, emails,
                   cpi, scan>>

\* cancel_ticket in a worker thread: the ticket is read and checked ...
cancel_start(p, u, k) ==
    /\ gate[p].state = "idle"
    /\ IF k \notin Ids(tickets) \/ tickets[k].deleted
       THEN /\ response' = "NotFound"
            /\ UNCHANGED gate
       ELSE IF orders[tickets[k].order_id].user_id # u /\ Role(u) # "admin"
       THEN /\ response' = "Forbidden"
            /\ UNCHANGED gate
       ELSE IF tickets[k].checked_in
       THEN /\ response' = "BadRequest"
            /\ UNCHANGED gate
       ELSE /\ gate' = [gate EXCEPT ![p] =
                           [state |-> "cancel", ticket_id |-> k, user |-> u]]
            /\ UNCHANGED response
    /\ UNCHANGED <<ticket_types, tickets, orders, transactions, intents, pc,
                   wh, emails, cpi, scan>>

\* ... then deleted_at is set and committed
cancel_commit(p) ==
    /\ gate[p].state = "cancel"
    /\ tickets' = [tickets EXCEPT ![gate[p].ticket_id].deleted = TRUE]
    /\ gate' = [gate EXCEPT ![p] = IdleGate]
    /\ response' = "OK"
    /\ UNCHANGED <<ticket_types, orders, transactions, intents, pc, wh, emails,
                   cpi, scan>>

\* a check-out that does not look at checked_out
AlreadyCheckedOutNever(row) == FALSE

\* check_out_ticket: "if ticket.checked_out"
AlreadyCheckedOut(row) == row.checked_out

\* POST /validation/checkout (require_role admin or organizer)
check_out_ticket(u, k) ==
    /\ IF Role(u) \notin {"admin", "organizer"}
       THEN /\ response' = "Forbidden"
            /\ UNCHANGED tickets
       ELSE IF k \notin Ids(tickets) \/ tickets[k].deleted
       THEN /\ response' = "NotFound"
            /\ UNCHANGED tickets
       ELSE IF ~tickets[k].checked_in
       THEN /\ response' = "NotCheckedIn"
            /\ UNCHANGED tickets
       ELSE IF AlreadyCheckedOut(tickets[k])
       THEN /\ response' = "AlreadyCheckedOut"
            /\ UNCHANGED tickets
       ELSE IF ~MayValidate(u, orders[tickets[k].order_id].event_id)
       THEN /\ response' = "Forbidden"
            /\ UNCHANGED tickets
       ELSE /\ tickets' = [tickets EXCEPT ![k].checked_out = TRUE]
            /\ response' = "OK"
    /\ UNCHANGED <<ticket_types, orders, transactions, intents, pc, wh, emails>>
    /\ UNCHANGED aux

\* the fields a TicketUpdate body may set (seat_number is not modelled): no
\* flag, or one of checked_in and checked_out with a boolean (a body with
\* both does what two requests with one each do)
UpdateInputs == UNION {[D -> BOOLEAN] : D \in {{}, {"checked_in"}, {"checked_out"}}}

\* PUT /tickets/{id}: model_dump(exclude_unset=True) + setattr of every field
\* the body carries
update_ticket(u, k, update_data) ==
    /\ UNCHANGED <<ticket_types, orders, transactions, intents, pc, wh, emails>>
    /\ IF k \notin Ids(tickets) \/ tickets[k].deleted
       THEN /\ response' = "NotFound"
            /\ UNCHANGED tickets
       ELSE IF orders[tickets[k].order_id].user_id # u /\ Role(u) # "admin"
       THEN /\ response' = "Forbidden"
            /\ UNCHANGED tickets
       ELSE /\ tickets' = [tickets EXCEPT ![k] =
                   [f \in DOMAIN @ |-> IF f \in DOMAIN update_data
                                       THEN update_data[f] ELSE @[f]]]
            /\ response' = "OK"
    /\ UNCHANGED aux

\* a transfer that does not look at the ticket's validation
ValidatedNever(row) == FALSE

\* transfer_ticket: "if ticket.checked_in or ticket.validated_at"
Validated(row) == row.checked_in \/ row.validated_at # NULL

\* a transfer that charges the new owner the price of an order
TransferOrderPriced(new_owner, e) ==
    [user_id |-> new_owner, event_id |-> e, total_price |-> 1,
     payment_status |-> "completed", deleted |-> FALSE]

\* the order transfer_ticket inserts for the new owner: Orders(user_id,
\* event_id, total_price=0, payment_method="transfer", payment_status="completed")
TransferOrder(new_owner, e) ==
    [user_id |-> new_owner, event_id |-> e, total_price |-> 0,
     payment_status |-> "completed", deleted |-> FALSE]

\* a transfer that gives the unit back to the ticket type
TypesAfterRelease(types, t) ==
    [types EXCEPT ![t].available_quantity = @ + 1, ![t].sold_quantity = @ - 1]

\* the ticket_types rows after a transfer of a ticket of type t: the handler
\* writes the new order and the ticket's order_id, no ticket type
TypesAfterTransfer(types, t) == types

\* POST /admin/tickets/transfer; new_owner is the user the e-mail address
\* names, NULL when no user has it.  The transfer notice is handed to the
\* e-mail service after the commit and changes nothing.  The handler lives in
\* routers/admin.py, which main.py does not mount alongside the other routers;
\* it is modelled as the operation the handler implements.
transfer_ticket(u, k, new_owner) ==
    /\ IF k \notin Ids(tickets) \/ tickets[k].deleted
       THEN /\ response' = "NotFound"
            /\ UNCHANGED <<tickets, orders, ticket_types>>
       ELSE IF orders[tickets[k].order_id].user_id # u /\ Role(u) # "admin"
       THEN /\ response' = "Forbidden"
            /\ UNCHANGED <<tickets, orders, ticket_types>>
       ELSE IF new_owner = NULL
       THEN /\ response' = "NotFound"
            /\ UNCHANGED <<tickets, orders, ticket_types>>
       ELSE IF new_owner = u
       THEN /\ response' = "BadRequest"
            /\ UNCHANGED <<tickets, orders, ticket_types>>
       ELSE IF Validated(tickets[k])
       THEN /\ response' = "AlreadyValidated"
            /\ UNCHANGED <<tickets, orders, ticket_types>>
       ELSE /\ Len(orders) < MaxOrders
            /\ orders' = Append(orders,
                   TransferOrder(new_owner, orders[tickets[k].order_id].event_id))
            /\ tickets' = [tickets EXCEPT ![k].order_id = Len(orders) + 1]
            /\ ticket_types' = TypesAfterTransfer(ticket_types, tickets[k].ticket_type_id)
            /\ response' = "OK"
    /\ UNCHANGED <<transactions, intents, pc, wh, emails>>
    /\ UNCHANGED aux

\* ----------------------------------------------------- payment endpoints
\* first() on a query whose filter matches at most one row: that row
Min(S) == CHOOSE i \in S : \A j \in S : i <= j

\* POST /payments/create-payment-intent; Stripe answers with a fresh intent
\* id and the status of a new intent
create_payment_intent(u, o) ==
    LET existing == {i \in Ids(transactions) : transactions[i].order_id = o}
    IN
    /\ UNCHANGED <<ticket_types, tickets, orders, pc, wh, emails, aux>>
    /\ IF o \notin Ids(orders) \/ orders[o].deleted
       THEN /\ response' = "NotFound"
            /\ UNCHANGED <<transactions, intents>>
       ELSE IF orders[o].user_id # u /\ Role(u) # "admin"
       THEN /\ response' = "Forbidden"
            /\ UNCHANGED <<transactions, intents>>
       ELSE IF existing # {} /\ transactions[Min(existing)].status = "succeeded"
       THEN /\ response' = "BadRequest"
            /\ UNCHANGED <<transactions, intents>>
       ELSE /\ intents < MaxIntents
            /\ intents' = intents + 1
            /\ transactions' =
                 IF existing # {}
                 THEN [transactions EXCEPT
                          ![Min(existing)].stripe_payment_intent_id = intents + 1,
                          ![Min(existing)].status = "requires_payment_method"]
                 ELSE Append(transactions,
                          [order_id |-> o, stripe_payment_intent_id |-> intents + 1,
                           status |-> "requires_payment_method"])
            /\ response' = "Created"

\* The same handler as it runs in a worker thread with a session of its own:
\* the order checks and the read of the existing transaction come first ...
cpi_start(p, u, o) ==
    LET existing == {i \in Ids(transactions) : transactions[i].order_id = o}
    IN
    /\ cpi[p].state = "idle"
    /\ IF o \notin Ids(orders) \/ orders[o].deleted
       THEN /\ response' = "NotFound"
            /\ UNCHANGED cpi
       ELSE IF orders[o].user_id # u /\ Role(u) # "admin"
       THEN /\ response' = "Forbidden"
            /\ UNCHANGED cpi
       ELSE IF existing # {} /\ transactions[Min(existing)].status = "succeeded"
       THEN /\ response' = "BadRequest"
            /\ UNCHANGED cpi
       ELSE /\ cpi' = [cpi EXCEPT ![p] =
                          [state |-> "stripe", order_id |-> o,
                           existing |-> IF existing # {} THEN Min(existing)
                                        ELSE NULL]]
            /\ UNCHANGED response
    /\ UNCHANGED <<ticket_types, tickets, orders, transactions, intents, pc,
                   wh, emails, scan, gate>>

\* ... then Stripe answers with a fresh intent id, and the row read before
\* the call is updated, or a new row is inserted when none was read
cpi_commit(p) ==
    /\ cpi[p].state = "stripe"
    /\ intents < IntentCalls
    /\ intents' = intents + 1
    /\ transactions' =
         IF cpi[p].existing # NULL
         THEN [transactions EXCEPT
                  ![cpi[p].existing].stripe_payment_intent_id = intents + 1,
                  ![cpi[p].existing].status = "requires_payment_method"]
         ELSE Append(transactions,
                  [order_id |-> cpi[p].order_id,
                   stripe_payment_intent_id |-> intents + 1,
                   status |-> "requires_payment_method"])
    /\ cpi' = [cpi EXCEPT ![p] = IdleCpi]
    /\ response' = "Created"
    /\ UNCHANGED <<ticket_types, tickets, orders, pc, wh, emails, scan, gate>>

\* the transaction a notification names: first() on the intent-id filter
TransactionOf(pi) == {i \in Ids(transactions) : transactions[i].stripe_payment_intent_id = pi}

\* the payload stripe_webhook stores in qr_code_data (json.dumps(qr_data))
QRData(k, o) ==
    [ticket_id |-> k, order_id |-> o, event_id |-> orders[o].event_id,
     user_id |-> orders[o].user_id,
     ticket_type |-> IF tickets[k].ticket_type_id \in Ids(ticket_types)
                     THEN ticket_types[tickets[k].ticket_type_id].name
                     ELSE "Unknown"]

\* tickets of an order the webhook's query returns
OrderTickets(o) == {k \in Ids(tickets) : tickets[k].order_id = o /\ ~tickets[k].deleted}

\* what send_payment_confirmation answers: True when the e-mail went out,
\* False when rendering or sending raised (the service logs and returns False)
MailOutcomes == BOOLEAN

\* a handler that undoes its commit when the e-mail fails
RolledBackOnFailure(committed, before, ok) == IF ok THEN committed ELSE before

\* the rows after the confirmation e-mail: db.commit() came before the send,
\* and a failed send is logged and nothing else
AfterMail(committed, before, ok) == committed

\* POST /payments/webhooks/stripe, payment_intent.succeeded, up to the first
\* commit and the payment confirmation e-mail
wh_succeeded(pi) ==
    /\ wh.phase = "idle"
    /\ UNCHANGED <<ticket_types, tickets, intents, pc>>
    /\ IF TransactionOf(pi) = {}
       THEN /\ response' = "success"
            /\ emails' = 0
            /\ UNCHANGED <<transactions, orders, wh>>
       ELSE LET i == Min(TransactionOf(pi))
                o == transactions[i].order_id
            IN \E ok \in MailOutcomes :
               /\ transactions' = AfterMail(
                      [transactions EXCEPT ![i].status = "succeeded"],
                      transactions, ok)
               /\ orders' = AfterMail(
                      [orders EXCEPT ![o].payment_status = "completed"],
                      orders, ok)
               /\ emails' = 1
               /\ wh' = [phase |-> "paid", order_id |-> o,
                         dup |-> transactions[i].status = "succeeded",
                         mail_ok |-> ok]
               /\ UNCHANGED response
    /\ UNCHANGED aux

\* payment_intent.succeeded, the ticket loop: the query has no ORDER BY, so
\* any of the order's tickets may come first; its QR payload is committed,
\* then building ticket_data reads event.event_date, which Events does not
\* have, and the AttributeError ends the loop in the except clause
wh_issue_tickets ==
    /\ wh.phase = "paid"
    /\ UNCHANGED <<ticket_types, orders, transactions, intents, pc, emails>>
    /\ IF OrderTickets(wh.order_id) = {}
       THEN UNCHANGED tickets
       ELSE \E k \in OrderTickets(wh.order_id) :
               tickets' = [tickets EXCEPT
                              ![k].qr_code_data = QRData(k, wh.order_id)]
    /\ wh' = IdleWh
    /\ response' = "success"
    /\ UNCHANGED aux

\* payment_intent.payment_failed and payment_intent.canceled: one commit
wh_status(pi, status) ==
    /\ wh.phase = "idle"
    /\ UNCHANGED <<ticket_types, tickets, intents, pc, wh>>
    /\ emails' = 0
    /\ response' = "success"
    /\ IF TransactionOf(pi) = {}
       THEN UNCHANGED <<transactions, orders>>
       ELSE LET i == Min(TransactionOf(pi))
                o == transactions[i].order_id
            IN /\ transactions' = [transactions EXCEPT ![i].status = status]
               /\ orders' = [orders EXCEPT ![o].payment_status = status]
    /\ UNCHANGED aux

wh_payment_failed(pi) == wh_status(pi, "failed")

wh_canceled(pi) == wh_status(pi, "canceled")

\* what stripe.Refund.create does: it returns the refund, or raises
RefundOutcomes == BOOLEAN

\* POST /payments/{payment_intent_id}/refund
create_refund(u, pi) ==
    /\ IF TransactionOf(pi) = {}
       THEN /\ response' = "NotFound"
            /\ UNCHANGED <<transactions, orders>>
       ELSE LET i == Min(TransactionOf(pi))
                o == transactions[i].order_id
            IN IF Role(u) # "admin" /\ orders[o].user_id # u
               THEN /\ response' = "Forbidden"
                    /\ UNCHANGED <<transactions, orders>>
               ELSE \E refunded \in RefundOutcomes :
                      IF refunded
                      THEN /\ transactions' = [transactions EXCEPT ![i].status = "refunded"]
                           /\ orders' = [orders EXCEPT ![o].payment_status = "refunded"]
                           /\ response' = "OK"
                      ELSE /\ response' = "Error"
                           /\ UNCHANGED <<transactions, orders>>
    /\ UNCHANGED <<ticket_types, tickets, intents, pc, wh, emails, aux>>

\* intent ids a notification may carry: the ones Stripe issued for this
\* application and one no payment transaction has
IntentInputs == 1..(intents + 1)

Next ==
    \/ \E u \in Users, e \in EventInputs, name \in Names, q \in 1..MaxQuantity :
           create_ticket_type(u, e, name, q)
    \/ \E u \in Users, t \in 1..MaxTicketTypes, name \in Names \cup {UnsetName},
          q \in (1..MaxQuantity) \cup {UnsetQuantity} :
           update_ticket_type(u, t, name, q)
    \/ \E u \in Users, t \in 1..MaxTicketTypes : delete_ticket_type(u, t)
    \/ \E u \in Buyers, e \in EventInputs, s \in StatusInputs : create_order(u, e, s)
    \/ \E p \in Callers, u \in Users, o \in 1..MaxOrders, t \in 1..MaxTicketTypes :
           ct_start(p, u, o, t)
    \/ \E p \in Callers : ct_lock(p)
    \/ \E p \in Callers : ct_commit(p)
    \/ \E u \in Users, k \in 1..MaxTickets : cancel_ticket(u, k)
    \/ \E u \in Users, k \in 1..MaxTickets : check_in_ticket(u, k)
    \/ \E u \in Users, k \in 1..MaxTickets, n \in Users \cup {NULL} :
           transfer_ticket(u, k, n)
    \/ \E u \in Users, o \in 1..MaxOrders : create_payment_intent(u, o)
    \/ \E pi \in IntentInputs : wh_succeeded(pi)
    \/ wh_issue_tickets
    \/ \E pi \in IntentInputs : wh_payment_failed(pi)
    \/ \E pi \in IntentInputs : wh_canceled(pi)

Spec == Init /\ [][Next]_vars

\* ------------------------------------------- N concurrent reservations
\* One ticket type of quantity q of which s units are sold to order 1, and
\* ReserveCallers callers whose requests for a ticket of that type under
\* order 2 have passed the order checks; nothing else runs.
ReserveStates == { st \in [q : 1..ReserveQuantity, s : 0..ReserveQuantity] : st.s <= st.q }

InitReserve ==
    \E st \in ReserveStates :
        /\ ticket_types = << [event_id |-> 1, name |-> "GA", quantity |-> st.q,
                              available_quantity |-> st.q - st.s,
                              sold_quantity |-> st.s, deleted |-> FALSE] >>
        /\ orders = [o \in 1..2 |-> [user_id |-> 1, event_id |-> 1, total_price |-> 1,
                                     payment_status |-> "pending", deleted |-> FALSE]]
        /\ tickets = [k \in 1..st.s |-> NewTicket(1, 1)]
        /\ transactions = <<>>
        /\ intents = 0
        /\ pc = [p \in 1..ReserveCallers |->
                    [IdlePc EXCEPT !.state = "checked", !.order_id = 2,
                                   !.ticket_type_id = 1]]
        /\ wh = IdleWh
        /\ emails = 0
        /\ response = "none"
        /\ cpi = [p \in Callers |-> IdleCpi]
        /\ scan = NoScan
        /\ gate = [p \in Callers |-> IdleGate]

NextReserve ==
    \/ \E p \in DOMAIN pc : ct_lock(p)
    \/ \E p \in DOMAIN pc : ct_commit(p)

SpecReserve == InitReserve /\ [][NextReserve]_vars

\* ------------------------------------------------- tickets at the venue
\* VenueTickets tickets of one sold-out ticket type, reserved under order 1
\* of user 1; the order has any of the payment statuses the handlers write,
\* and the tickets of a completed order have the QR payload fulfillment
\* stores.
\* The ticket holder, the event's organizer, an admin and the organizer of
\* another event check the tickets in and out, update and transfer them.
VenueTickets == 1

VenueUsers == 1..4

\* create_order and transfer_ticket (completed), create_order (pending),
\* stripe_webhook (failed, canceled), cancel_order (cancelled), create_refund
\* (refunded)
OrderStatuses == {"pending", "completed", "failed", "canceled", "cancelled", "refunded"}

\* the user the new_owner_email of a transfer names: a plain user, the
\* admin, or nobody
TransferTargets == {1, 3, NULL}

InitVenue ==
    \E st \in OrderStatuses :
        /\ ticket_types = << [event_id |-> 1, name |-> "GA", quantity |-> VenueTickets,
                              available_quantity |-> 0,
                              sold_quantity |-> VenueTickets, deleted |-> FALSE] >>
        /\ orders = << [user_id |-> 1, event_id |-> 1, total_price |-> 1,
                        payment_status |-> st, deleted |-> FALSE] >>
        /\ tickets = [k \in 1..VenueTickets |->
                        IF st = "completed"
                        THEN [NewTicket(1, 1) EXCEPT !.qr_code_data =
                                 [ticket_id |-> k, order_id |-> 1, event_id |-> 1,
                                  user_id |-> 1, ticket_type |-> "GA"]]
                        ELSE NewTicket(1, 1)]
        /\ transactions = <<>>
        /\ intents = 0
        /\ pc = [p \in Callers |-> IdlePc]
        /\ wh = IdleWh
        /\ emails = 0
        /\ response = "none"
        /\ cpi = [p \in Callers |-> IdleCpi]
        /\ scan = NoScan
        /\ gate = [p \in Callers |-> IdleGate]

NextVenue ==
    \/ \E u \in VenueUsers, k \in 1..VenueTickets : check_in_ticket(u, k)
    \/ \E u \in VenueUsers, k \in 1..VenueTickets : check_out_ticket(u, k)
    \/ \E u \in VenueUsers, k \in 1..VenueTickets, d \in UpdateInputs :
           update_ticket(u, k, d)
    \/ \E u \in VenueUsers, k \in 1..VenueTickets, n \in TransferTargets :
           transfer_ticket(u, k, n)

SpecVenue == InitVenue /\ [][NextVenue]_vars

\* ----------------------------------------------------- ticket lifecycle
\* The tickets of InitVenue, reserved under a pending order or issued under
\* a completed one; every ticket operation, one request at a time.
InitLifecycle ==
    /\ InitVenue
    /\ orders[1].payment_status \in {"pending", "completed"}

NextLifecycle ==
    \/ \E u \in VenueUsers, k \in 1..VenueTickets : check_in_ticket(u, k)
    \/ \E u \in VenueUsers, k \in 1..VenueTickets : check_out_ticket(u, k)
    \/ \E u \in VenueUsers, k \in 1..VenueTickets, d \in UpdateInputs :
           update_ticket(u, k, d)
    \/ \E u \in VenueUsers, k \in 1..VenueTickets, n \in TransferTargets :
           transfer_ticket(u, k, n)
    \/ \E u \in VenueUsers, k \in 1..VenueTickets : cancel_ticket(u, k)

SpecLifecycle == InitLifecycle /\ [][NextLifecycle]_vars

\* ------------------------------------------------------ concurrent gate
\* The tickets of InitVenue; check_in_ticket and cancel_ticket run in
\* NumCallers worker threads.
NextGate ==
    \/ \E p \in Callers, u \in VenueUsers, k \in 1..VenueTickets : ci_start(p, u, k)
    \/ \E p \in Callers : ci_commit(p)
    \/ \E p \in Callers, u \in VenueUsers, k \in 1..VenueTickets :
           cancel_start(p, u, k)
    \/ \E p \in Callers : cancel_commit(p)

SpecGate == InitVenue /\ [][NextGate]_vars

\* A str is a sequence of characters. A decoded JSON value carries its Python
\* type: int, str, None, dict (the members in payload order) or list.
IntValue(n) == [kind |-> "int", v |-> n]
StrValue(s) == [kind |-> "str", v |-> s]
NoneValue == [kind |-> "null", v |-> <<>>]
DictValue(members) == [kind |-> "object", v |-> members]
ListValue(elements) == [kind |-> "array", v |-> elements]

Digits == <<"0", "1", "2", "3", "4", "5", "6", "7", "8", "9">>

RECURSIVE NatToStr(_)
NatToStr(n) ==
    IF n < 10 THEN <<Digits[n + 1]>>
    ELSE NatToStr(n \div 10) \o <<Digits[(n % 10) + 1]>>

\* json.dumps of an int
IntToStr(n) == IF n < 0 THEN <<"-">> \o NatToStr(-n) ELSE NatToStr(n)

\* a character as it stands in the payload, unescaped
RawChar(c) == <<c>>

\* json.dumps of one character of a str: quote and backslash are escaped
EscapeChar(c) ==
    IF c = "\"" THEN <<"\\", "\"">>
    ELSE IF c = "\\" THEN <<"\\", "\\">>
    ELSE <<c>>

RECURSIVE Escape(_)
Escape(s) == IF s = <<>> THEN <<>> ELSE EscapeChar(Head(s)) \o Escape(Tail(s))

DumpsStr(s) == <<"\"">> \o Escape(s) \o <<"\"">>

DumpsScalar(val) == IF val.kind = "int" THEN IntToStr(val.v) ELSE DumpsStr(val.v)

RECURSIVE DumpsMembers(_)
DumpsMembers(members) ==
    IF members = <<>> THEN <<>>
    ELSE DumpsStr(members[1].key) \o <<":", " ">> \o DumpsScalar(members[1].val)
         \o (IF Len(members) > 1 THEN <<",", " ">> ELSE <<>>)
         \o DumpsMembers(Tail(members))

\* json.dumps of a dict of int and str values, with the default separators
dumps(members) == <<"{">> \o DumpsMembers(members) \o <<"}">>

\* json.loads, for payloads made of int, str and null scalars, and of dicts
\* and lists of such scalars
Fail == [ok |-> FALSE, v |-> NoneValue, next |-> 0]
Parsed(val, i) == [ok |-> TRUE, v |-> val, next |-> i]

RECURSIVE SkipWs(_, _)
SkipWs(s, i) == IF i <= Len(s) /\ s[i] = " " THEN SkipWs(s, i + 1) ELSE i

\* the characters after an opening quote, up to the closing quote
RECURSIVE ScanString(_, _, _)
ScanString(s, i, acc) ==
    IF i > Len(s) THEN Fail
    ELSE IF s[i] = "\"" THEN Parsed(StrValue(acc), i + 1)
    ELSE IF s[i] = "\\"
    THEN IF i + 1 <= Len(s) /\ s[i + 1] \in {"\"", "\\", "/"}
         THEN ScanString(s, i + 2, Append(acc, s[i + 1]))
         ELSE Fail
    ELSE ScanString(s, i + 1, Append(acc, s[i]))

DigitOf(c) == CHOOSE d \in 0..9 : Digits[d + 1] = c
IsDigit(c) == \E d \in 0..9 : Digits[d + 1] = c

RECURSIVE ScanDigits(_, _, _)
ScanDigits(s, i, acc) ==
    IF i <= Len(s) /\ IsDigit(s[i])
    THEN ScanDigits(s, i + 1, 10 * acc + DigitOf(s[i]))
    ELSE Parsed(IntValue(acc), i)

\* an int: an optional minus sign, then 0 or digits without a leading 0
ScanInt(s, i) ==
    LET neg == s[i] = "-"
        j == IF neg THEN i + 1 ELSE i
        r == ScanDigits(s, j, 0)
    IN IF j > Len(s) \/ ~IsDigit(s[j]) THEN Fail
       ELSE IF s[j] = "0" /\ r.next > j + 1 THEN Fail
       ELSE IF neg THEN Parsed(IntValue(-r.v.v), r.next) ELSE r

ScanScalar(s, i) ==
    IF i > Len(s) THEN Fail
    ELSE IF s[i] = "\"" THEN ScanString(s, i + 1, <<>>)
    ELSE IF s[i] = "-" \/ IsDigit(s[i]) THEN ScanInt(s, i)
    ELSE IF i + 3 <= Len(s) /\ SubSeq(s, i, i + 3) = <<"n", "u", "l", "l">>
    THEN Parsed(NoneValue, i + 4)
    ELSE Fail

\* the members of a dict, from the first key to the closing brace
RECURSIVE ScanMembers(_, _, _)
ScanMembers(s, i, acc) ==
    IF i > Len(s) \/ s[i] # "\"" THEN Fail
    ELSE
    LET key == ScanString(s, i + 1, <<>>)
        colon == SkipWs(s, key.next)
        val == ScanScalar(s, SkipWs(s, colon + 1))
        sep == SkipWs(s, val.next)
        members == Append(acc, [key |-> key.v.v, val |-> val.v])
    IN IF ~key.ok THEN Fail
       ELSE IF colon > Len(s) \/ s[colon] # ":" THEN Fail
       ELSE IF ~val.ok THEN Fail
       ELSE IF sep > Len(s) THEN Fail
       ELSE IF s[sep] = "}" THEN Parsed(DictValue(members), sep + 1)
       ELSE IF s[sep] = "," THEN ScanMembers(s, SkipWs(s, sep + 1), members)
       ELSE Fail

\* the elements of a list, from the first element to the closing bracket
RECURSIVE ScanElements(_, _, _)
ScanElements(s, i, acc) ==
    LET val == ScanScalar(s, i)
        sep == SkipWs(s, val.next)
        elements == Append(acc, val.v)
    IN IF ~val.ok THEN Fail
       ELSE IF sep > Len(s) THEN Fail
       ELSE IF s[sep] = "]" THEN Parsed(ListValue(elements), sep + 1)
       ELSE IF s[sep] = "," THEN ScanElements(s, SkipWs(s, sep + 1), elements)
       ELSE Fail

ScanValue(s, i) ==
    IF i > Len(s) THEN Fail
    ELSE IF s[i] = "{"
    THEN LET j == SkipWs(s, i + 1)
         IN IF j <= Len(s) /\ s[j] = "}" THEN Parsed(DictValue(<<>>), j + 1)
            ELSE ScanMembers(s, j, <<>>)
    ELSE IF s[i] = "["
    THEN LET j == SkipWs(s, i + 1)
         IN IF j <= Len(s) /\ s[j] = "]" THEN Parsed(ListValue(<<>>), j + 1)
            ELSE ScanElements(s, j, <<>>)
    ELSE ScanScalar(s, i)

\* json.loads: one value between optional blanks; ok is FALSE where
\* json.loads raises JSONDecodeError
loads(s) ==
    LET r == ScanValue(s, SkipWs(s, 1))
    IN IF r.ok /\ SkipWs(s, r.next) = Len(s) + 1 THEN r ELSE Fail

\* ------------------------------------------------------ order lifecycle
\* A pending order of user 1 that holds one reserved ticket of a ticket type
\* with one unit left; orders are created, updated, cancelled and paid.
InitOrders ==
    /\ ticket_types = << [event_id |-> 1, name |-> "GA", quantity |-> 2,
                          available_quantity |-> 1, sold_quantity |-> 1,
                          deleted |-> FALSE] >>
    /\ orders = << [user_id |-> 1, event_id |-> 1, total_price |-> 1,
                    payment_status |-> "pending", deleted |-> FALSE] >>
    /\ tickets = << NewTicket(1, 1) >>
    /\ transactions = <<>>
    /\ intents = 0
    /\ pc = [p \in Callers |-> IdlePc]
    /\ wh = IdleWh
    /\ emails = 0
    /\ response = "none"
    /\ cpi = [p \in Callers |-> IdleCpi]
    /\ scan = NoScan
    /\ gate = [p \in Callers |-> IdleGate]

NextOrders ==
    \/ \E u \in Buyers, e \in EventInputs, st \in PaymentStatusInputs :
           create_order(u, e, st)
    \/ \E u \in Users, o \in 1..MaxOrders, st \in PaymentStatusInputs :
           update_order(u, o, st)
    \/ \E u \in Users, o \in 1..MaxOrders : cancel_order(u, o)
    \/ \E u \in Users, o \in 1..MaxOrders : create_payment_intent(u, o)
    \/ \E pi \in IntentInputs : wh_succeeded(pi)
    \/ wh_issue_tickets
    \/ \E pi \in IntentInputs : wh_payment_failed(pi)
    \/ \E pi \in IntentInputs : wh_canceled(pi)

SpecOrders == InitOrders /\ [][NextOrders]_vars

\* -------------------------------------------------- refunds and cancels
\* The pending order of InitOrders is paid, refunded or cancelled, and
\* Stripe's notifications arrive in any order and any number of times.
NextRefund ==
    \/ \E u \in Users, o \in 1..MaxOrders : create_payment_intent(u, o)
    \/ \E u \in Users, o \in 1..MaxOrders : cancel_order(u, o)
    \/ \E u \in Users, pi \in IntentInputs : create_refund(u, pi)
    \/ \E pi \in IntentInputs : wh_succeeded(pi)
    \/ wh_issue_tickets
    \/ \E pi \in IntentInputs : wh_payment_failed(pi)
    \/ \E pi \in IntentInputs : wh_canceled(pi)

SpecRefund == InitOrders /\ [][NextRefund]_vars

\* ------------------------------------------------------ entry after payment
\* The ticket of InitOrders, reserved under the pending order 1, on its way
\* to the gate: the order is updated, paid or refunded, the ticket is
\* transferred, and staff check it in.
NextEntry ==
    \/ \E u \in Users, o \in 1..MaxOrders, st \in PaymentStatusInputs :
           update_order(u, o, st)
    \/ \E u \in Users, o \in 1..MaxOrders : create_payment_intent(u, o)
    \/ \E u \in Users, pi \in IntentInputs : create_refund(u, pi)
    \/ \E pi \in IntentInputs : wh_succeeded(pi)
    \/ wh_issue_tickets
    \/ \E u \in Users, k \in 1..MaxTickets, n \in TransferTargets :
           transfer_ticket(u, k, n)
    \/ \E u \in Users, k \in 1..MaxTickets : check_in_ticket(u, k)

SpecEntry == InitOrders /\ [][NextEntry]_vars

\* -------------------------------------------------- concurrent payments
\* The pending order of InitOrders; create_payment_intent runs in
\* NumCallers worker threads, and the webhook settles the intents.
NextIntent ==
    \/ \E p \in Callers, u \in Users, o \in 1..MaxOrders : cpi_start(p, u, o)
    \/ \E p \in Callers : cpi_commit(p)
    \/ \E pi \in 1..IntentCalls : wh_succeeded(pi)
    \/ wh_issue_tickets
    \/ \E pi \in 1..IntentCalls : wh_payment_failed(pi)

SpecIntent == InitOrders /\ [][NextIntent]_vars

\* ------------------------------------------------------------ qr_service
K_ticket_id == <<"t", "i", "c", "k", "e", "t", "_", "i", "d">>
K_order_id == <<"o", "r", "d", "e", "r", "_", "i", "d">>
K_event_id == <<"e", "v", "e", "n", "t", "_", "i", "d">>
K_user_id == <<"u", "s", "e", "r", "_", "i", "d">>
K_ticket_type == <<"t", "i", "c", "k", "e", "t", "_", "t", "y", "p", "e">>
K_generated_at == <<"g", "e", "n", "e", "r", "a", "t", "e", "d", "_", "a", "t">>
K_version == <<"v", "e", "r", "s", "i", "o", "n">>

V_1_0 == <<"1", ".", "0">>

\* the identity fields of a ticket, as the dict generate_ticket_qr_code builds
TicketFields(ticket_id, order_id, event_id, user_id, ticket_type) ==
    << [key |-> K_ticket_id, val |-> IntValue(ticket_id)],
       [key |-> K_order_id, val |-> IntValue(order_id)],
       [key |-> K_event_id, val |-> IntValue(event_id)],
       [key |-> K_user_id, val |-> IntValue(user_id)],
       [key |-> K_ticket_type, val |-> StrValue(ticket_type)] >>

\* the payload of the QR code: json.dumps of the identity fields, the time
\* of generation and the schema version
generate_ticket_qr_code(fields, generated_at) ==
    dumps(fields \o << [key |-> K_generated_at, val |-> StrValue(generated_at)],
                       [key |-> K_version, val |-> StrValue(V_1_0)] >>)

required_fields == {K_ticket_id, K_order_id, K_event_id, K_user_id}

HasKey(qr_data, key) == \E m \in 1..Len(qr_data.v) : qr_data.v[m].key = key

\* Python's `field in qr_data`: a key of a dict, an element of a list, a
\* substring of a str; defined for these three types only
Contains(qr_data, field) ==
    CASE qr_data.kind = "object" -> HasKey(qr_data, field)
      [] qr_data.kind = "array" ->
            \E m \in 1..Len(qr_data.v) :
                qr_data.v[m].kind = "str" /\ qr_data.v[m].v = field
      [] OTHER ->
            \E i \in 1..(Len(qr_data.v) - Len(field) + 1) :
                SubSeq(qr_data.v, i, i + Len(field) - 1) = field

\* dict.get: the value of the last member with the key, else the default
Get(qr_data, key, default) ==
    IF HasKey(qr_data, key)
    THEN LET last == CHOOSE m \in 1..Len(qr_data.v) :
                        /\ qr_data.v[m].key = key
                        /\ \A n \in (m + 1)..Len(qr_data.v) : qr_data.v[n].key # key
         IN qr_data.v[last].val
    ELSE default

\* decode_ticket_qr_code: the loaded value, ValueError for a JSONDecodeError
\* or a missing field, and the TypeError that `in` raises on an int or None
decode_ticket_qr_code(qr_data_string) ==
    LET r == loads(qr_data_string)
    IN IF ~r.ok THEN [kind |-> "ValueError"]
       ELSE IF r.v.kind \in {"int", "null"} THEN [kind |-> "TypeError"]
       ELSE IF \E field \in required_fields : ~Contains(r.v, field)
       THEN [kind |-> "ValueError"]
       ELSE [kind |-> "ok", qr_data |-> r.v]

\* a version check that lets every version pass
AnyVersion(version) == TRUE

\* version not in ["1.0"]
SupportedVersion(version) == version.kind = "str" /\ version.v = V_1_0

\* a validate_qr_code_data that leaves out the event check
validate_version_only(qr_data, expected_event_id) ==
    IF qr_data.kind # "object" THEN FALSE
    ELSE SupportedVersion(Get(qr_data, K_version, StrValue(V_1_0)))

\* validate_qr_code_data; .get on a list or str raises, which is caught and
\* answered False
validate_qr_code_data(qr_data, expected_event_id) ==
    IF qr_data.kind # "object" THEN FALSE
    ELSE LET event_id == Get(qr_data, K_event_id, NoneValue)
         IN IF ~(event_id.kind = "int" /\ event_id.v = expected_event_id)
            THEN FALSE
            ELSE SupportedVersion(Get(qr_data, K_version, StrValue(V_1_0)))

\* POST /validation/validate on the payload the scanner read. The answer is
\* valid or invalid (TicketValidationResponse), Forbidden (403) or Error (500).
ValidationAnswers(u, d, event_id) ==
    IF d.kind = "TypeError" THEN {"Error"}
    ELSE IF d.kind = "ValueError" THEN {"invalid"}
    ELSE IF ~validate_qr_code_data(d.qr_data, event_id) THEN {"invalid"}
    ELSE LET ticket_id == Get(d.qr_data, K_ticket_id, NoneValue)
         IN IF ticket_id.kind = "str" THEN {"invalid", "Error"}
            ELSE IF ticket_id.kind # "int" THEN {"invalid"}
            ELSE IF ticket_id.v \notin Ids(tickets) THEN {"invalid"}
            ELSE IF tickets[ticket_id.v].deleted THEN {"invalid"}
            ELSE IF orders[tickets[ticket_id.v].order_id].payment_status # "completed"
            THEN {"invalid"}
            ELSE IF /\ Role(u) # "admin"
                    /\ event_id \in EventIds
                    /\ organizer_id(event_id) # u
            THEN {"Forbidden"}
            ELSE {"valid"}

validate_ticket(u, event_id) ==
    /\ scan.payload # <<>>
    /\ scan.answer = "none"
    /\ IF Role(u) \notin {"admin", "organizer"}
       THEN /\ scan' = [scan EXCEPT !.event_id = event_id,
                                     !.answer = "Forbidden"]
            /\ response' = "Forbidden"
       ELSE LET d == decode_ticket_qr_code(scan.payload)
            IN \E answer \in ValidationAnswers(u, d, event_id) :
                  /\ scan' = [scan EXCEPT !.event_id = event_id,
                                           !.decoded = d, !.answer = answer]
                  /\ response' = IF answer \in {"valid", "invalid"} THEN "OK"
                                 ELSE answer
    /\ UNCHANGED <<ticket_types, tickets, orders, transactions, intents, pc,
                   wh, emails, cpi, gate>>

\* the time of generation, datetime.now().isoformat()
Timestamps == {<<"T", "1">>, <<"T", "2">>}

\* a ticket's QR code is generated and printed
issue_qr_code(generated_at) ==
    /\ scan.fields # <<>>
    /\ scan.payload = <<>>
    /\ scan' = [scan EXCEPT !.payload =
                   generate_ticket_qr_code(scan.fields, generated_at)]
    /\ UNCHANGED <<ticket_types, tickets, orders, transactions, intents, pc,
                   wh, emails, response, cpi, gate>>

\* qr_code_data of a validation request is any str the client sends
ForeignPayloads ==
    { <<"5">>,
      <<"n", "u", "l", "l">>,
      <<"{", "b", "a", "d">>,
      <<"\"", "G", "A", "\"">>,
      <<"[", "\"", "t", "i", "c", "k", "e", "t", "_", "i", "d", "\"", ",", " ", "\"", "o", "r", "d", "e", "r", "_", "i", "d", "\"", ",", " ", "\"", "e", "v", "e", "n", "t", "_", "i", "d", "\"", ",", " ", "\"", "u", "s", "e", "r", "_", "i", "d", "\"", "]">>,
      <<"\"", "t", "i", "c", "k", "e", "t", "_", "i", "d", " ", "o", "r", "d", "e", "r", "_", "i", "d", " ", "e", "v", "e", "n", "t", "_", "i", "d", " ", "u", "s", "e", "r", "_", "i", "d", "\"">>,
      <<"{", "\"", "t", "i", "c", "k", "e", "t", "_", "i", "d", "\"", ":", " ", "1", ",", " ", "\"", "o", "r", "d", "e", "r", "_", "i", "d", "\"", ":", " ", "1", ",", " ", "\"", "e", "v", "e", "n", "t", "_", "i", "d", "\"", ":", " ", "1", "}">>,
      <<"{", "\"", "t", "i", "c", "k", "e", "t", "_", "i", "d", "\"", ":", " ", "1", ",", " ", "\"", "o", "r", "d", "e", "r", "_", "i", "d", "\"", ":", " ", "1", ",", " ", "\"", "e", "v", "e", "n", "t", "_", "i", "d", "\"", ":", " ", "1", ",", " ", "\"", "u", "s", "e", "r", "_", "i", "d", "\"", ":", " ", "1", ",", " ", "\"", "v", "e", "r", "s", "i", "o", "n", "\"", ":", " ", "\"", "2", ".", "0", "\"", "}">>,
      <<"{", "\"", "t", "i", "c", "k", "e", "t", "_", "i", "d", "\"", ":", " ", "1", ",", " ", "\"", "o", "r", "d", "e", "r", "_", "i", "d", "\"", ":", " ", "1", ",", " ", "\"", "e", "v", "e", "n", "t", "_", "i", "d", "\"", ":", " ", "1", ",", " ", "\"", "u", "s", "e", "r", "_", "i", "d", "\"", ":", " ", "1", ",", " ", "\"", "v", "e", "r", "s", "i", "o", "n", "\"", ":", " ", "1", "}">>,
      <<"{", "\"", "t", "i", "c", "k", "e", "t", "_", "i", "d", "\"", ":", " ", "1", ",", " ", "\"", "o", "r", "d", "e", "r", "_", "i", "d", "\"", ":", " ", "1", ",", " ", "\"", "e", "v", "e", "n", "t", "_", "i", "d", "\"", ":", " ", "1", ",", " ", "\"", "u", "s", "e", "r", "_", "i", "d", "\"", ":", " ", "1", "}">>,
      <<"{", "\"", "t", "i", "c", "k", "e", "t", "_", "i", "d", "\"", ":", " ", "\"", "1", "\"", ",", " ", "\"", "o", "r", "d", "e", "r", "_", "i", "d", "\"", ":", " ", "1", ",", " ", "\"", "e", "v", "e", "n", "t", "_", "i", "d", "\"", ":", " ", "1", ",", " ", "\"", "u", "s", "e", "r", "_", "i", "d", "\"", ":", " ", "1", "}">>,
      <<" ", "{", "\"", "u", "s", "e", "r", "_", "i", "d", "\"", ":", "1", ",", "\"", "e", "v", "e", "n", "t", "_", "i", "d", "\"", ":", "2", ",", "\"", "o", "r", "d", "e", "r", "_", "i", "d", "\"", ":", "1", ",", "\"", "t", "i", "c", "k", "e", "t", "_", "i", "d", "\"", ":", "1", ",", "\"", "t", "i", "c", "k", "e", "t", "_", "i", "d", "\"", ":", "2", "}", " ">> }

present_payload(qr_code_data) ==
    /\ scan.fields = <<>>
    /\ scan.payload = <<>>
    /\ scan' = [scan EXCEPT !.payload = qr_code_data]
    /\ UNCHANGED <<ticket_types, tickets, orders, transactions, intents, pc,
                   wh, emails, response, cpi, gate>>

\* ------------------------------------------------------------- gate scan
\* Ticket 1 is issued under the completed order 1 of user 1. A QR code is
\* generated from identity fields drawn here, or a client sends a payload of
\* its own, and venue staff validate the scan.
NameChars == {"A", "\"", "\\"}
TypeNames == UNION {[1..n -> NameChars] : n \in 0..TypeNameLen}

FieldInputs ==
    {TicketFields(ticket_id, order_id, event_id, 1, ticket_type) :
        ticket_id \in {1, 2, 10}, order_id \in {1, 12}, event_id \in EventInputs,
        ticket_type \in TypeNames}

InitQR ==
    /\ ticket_types = << [event_id |-> 1, name |-> "GA", quantity |-> 1,
                          available_quantity |-> 0, sold_quantity |-> 1,
                          deleted |-> FALSE] >>
    /\ orders = << [user_id |-> 1, event_id |-> 1, total_price |-> 1,
                    payment_status |-> "completed", deleted |-> FALSE] >>
    /\ tickets = << [NewTicket(1, 1) EXCEPT !.qr_code_data =
                        [ticket_id |-> 1, order_id |-> 1, event_id |-> 1,
                         user_id |-> 1, ticket_type |-> "GA"]] >>
    /\ transactions = <<>>
    /\ intents = 0
    /\ pc = [p \in Callers |-> IdlePc]
    /\ wh = IdleWh
    /\ emails = 0
    /\ response = "none"
    /\ cpi = [p \in Callers |-> IdleCpi]
    /\ \E fields \in FieldInputs \cup {<<>>} :
          scan = [NoScan EXCEPT !.fields = fields]
    /\ gate = [p \in Callers |-> IdleGate]

NextQR ==
    \/ \E generated_at \in Timestamps : issue_qr_code(generated_at)
    \/ \E qr_code_data \in ForeignPayloads : present_payload(qr_code_data)
    \/ \E u \in VenueUsers, event_id \in EventInputs : validate_ticket(u, event_id)

SpecQR == InitQR /\ [][NextQR]_vars

\* ------------------------------------------------------------- claims
ActiveTickets(t) == {k \in Ids(tickets) : tickets[k].ticket_type_id = t /\ ~tickets[k].deleted}

\* C1: for every ticket type, the number of its tickets that are not
\* cancelled is at most the type's quantity
C1_NoOversell ==
    \A t \in Ids(ticket_types) :
        Cardinality(ActiveTickets(t)) <= ticket_types[t].quantity

MinOf(a, b) == IF a <= b THEN a ELSE b

\* tickets the concurrent callers created (they reserve under order 2)
Created == Cardinality({k \in Ids(tickets) : tickets[k].order_id = 2})

\* units that were available when the callers started
AvailableAtStart ==
    ticket_types[1].quantity - Cardinality({k \in Ids(tickets) : tickets[k].order_id = 1})

C3_AvailableNonNegative ==
    \A t \in Ids(ticket_types) : ticket_types[t].available_quantity >= 0

\* the last unit of a type is sold and a further reservation was refused
C3_Witness ==
    /\ response = "SoldOut"
    /\ \E t \in Ids(ticket_types) :
          ticket_types[t].available_quantity = 0 /\ ticket_types[t].sold_quantity >= 1

\* C4: available_quantity + sold_quantity <= quantity for every ticket type
C4_CountersWithinQuantity ==
    \A t \in Ids(ticket_types) :
        ticket_types[t].available_quantity + ticket_types[t].sold_quantity
            <= ticket_types[t].quantity

\* C5: a step that cancels a ticket releases one unit of its type:
\* available_quantity + 1 and sold_quantity - 1
C5_CancelReleases ==
    [][\A k \in Ids(tickets) :
          (~tickets[k].deleted /\ tickets'[k].deleted) =>
              LET t == tickets[k].ticket_type_id IN
              /\ ticket_types'[t].available_quantity = ticket_types[t].available_quantity + 1
              /\ ticket_types'[t].sold_quantity = ticket_types[t].sold_quantity - 1]_vars

TypeMissing(t) == t \notin Ids(ticket_types) \/ ticket_types[t].deleted

StoredStatus(pi) ==
    IF TransactionOf(pi) = {} THEN "none"
    ELSE transactions[Min(TransactionOf(pi))].status

\* C7: applying a succeeded notification a second time changes no order,
\* payment transaction or ticket
C7_SucceededTwiceSameState ==
    [][/\ (\E pi \in 1..intents :
              wh_succeeded(pi) /\ StoredStatus(pi) = "succeeded")
          => UNCHANGED <<orders, transactions, tickets>>
       /\ (wh_issue_tickets /\ wh.dup)
          => UNCHANGED <<orders, transactions, tickets>>]_vars

\* C8: a notification whose status the transaction already has is answered
\* without any write and without any e-mail
C8_DuplicateNoSideEffects ==
    [][/\ (\E pi \in 1..intents :
              \/ wh_succeeded(pi) /\ StoredStatus(pi) = "succeeded"
              \/ wh_payment_failed(pi) /\ StoredStatus(pi) = "failed"
              \/ wh_canceled(pi) /\ StoredStatus(pi) = "canceled")
          => (UNCHANGED db /\ emails' = 0 /\ wh' = IdleWh)
       /\ (wh_issue_tickets /\ wh.dup) => (UNCHANGED db /\ emails' = 0)]_vars

\* C9: a payment_failed or canceled notification for a transaction that is
\* succeeded leaves the transaction succeeded and the order completed
C9_NoRevertAfterSucceeded ==
    [][\A pi \in 1..intents :
          ((wh_payment_failed(pi) \/ wh_canceled(pi)) /\ StoredStatus(pi) = "succeeded")
          => LET i == Min(TransactionOf(pi)) IN
             /\ transactions'[i].status = "succeeded"
             /\ orders'[transactions[i].order_id].payment_status
                   = orders[transactions[i].order_id].payment_status]_vars

\* every ticket of order o that is not cancelled has its QR payload
AllIssued(o) == \A k \in OrderTickets(o) : tickets[k].qr_code_data # NoQR

\* C10: the commit that makes the transaction succeeded and the order
\* completed also gives every non-cancelled ticket of the order its QR
\* payload, and so does the end of the request
C10_FulfillmentAllOrNothing ==
    [][\A o \in Ids(orders) :
          (\/ wh.phase = "idle" /\ wh'.phase = "paid" /\ wh'.order_id = o
           \/ wh.phase = "paid" /\ wh.order_id = o /\ wh'.phase = "idle")
          => AllIssued(o)']_vars

\* C11: when the payment confirmation e-mail of a succeeded notification
\* fails, the transaction is succeeded and the order completed all the same,
\* the rest of the request rolls nothing back (statuses and QR payloads
\* stay) and the request answers success
C11_MailFailureKeepsFulfillment ==
    [][/\ (wh.phase = "idle" /\ wh'.phase = "paid" /\ ~wh'.mail_ok)
          => /\ orders'[wh'.order_id].payment_status = "completed"
             /\ \E i \in Ids(transactions') :
                   /\ transactions'[i].order_id = wh'.order_id
                   /\ transactions'[i].status = "succeeded"
       /\ (wh.phase = "paid" /\ ~wh.mail_ok /\ wh'.phase = "idle")
          => /\ UNCHANGED <<transactions, orders, ticket_types>>
             /\ \A k \in Ids(tickets) :
                   tickets[k].qr_code_data # NoQR => tickets'[k].qr_code_data # NoQR
             /\ response' = "success"]_vars

\* the confirmation e-mail failed and the order is completed, its payment
\* transaction succeeded
C11_Witness ==
    /\ wh.phase = "paid"
    /\ ~wh.mail_ok
    /\ orders[wh.order_id].payment_status = "completed"
    /\ \E i \in Ids(transactions) :
          transactions[i].order_id = wh.order_id /\ transactions[i].status = "succeeded"

\* tickets of order o that are of ticket type t and not cancelled
OrderTicketsOfType(o, t) == {k \in OrderTickets(o) : tickets[k].ticket_type_id = t}

\* C12: a payment_failed or canceled notification for a transaction that is
\* neither succeeded nor already in that status sets transaction and order to
\* the status, marks every ticket of the order cancelled and gives one unit
\* back to the ticket type for each of them
C12_FailureReleasesInventory ==
    [][\A pi \in 1..intents :
          \A st \in {"failed", "canceled"} :
             (/\ wh_status(pi, st)
              /\ StoredStatus(pi) \notin {"none", "succeeded", st})
             => LET i == Min(TransactionOf(pi))
                    o == transactions[i].order_id
                IN /\ transactions'[i].status = st
                   /\ orders'[o].payment_status = st
                   /\ \A k \in OrderTickets(o) : tickets'[k].deleted
                   /\ \A t \in Ids(ticket_types) :
                        LET n == Cardinality(OrderTicketsOfType(o, t)) IN
                        /\ ticket_types'[t].available_quantity
                              = ticket_types[t].available_quantity + n
                        /\ ticket_types'[t].sold_quantity
                              = ticket_types[t].sold_quantity - n]_vars

\* C13: a notification whose intent id no payment transaction has changes no
\* row and is answered with NotFound
C13_UnknownIntentNotFound ==
    [][\A pi \in IntentInputs :
          (/\ TransactionOf(pi) = {}
           /\ wh_succeeded(pi) \/ wh_payment_failed(pi) \/ wh_canceled(pi))
          => (UNCHANGED db /\ response' = "NotFound")]_vars

\* C19: a ticket that is checked in has been issued: it has the QR payload
\* fulfillment stores
C19_CheckedInIsIssued ==
    \A k \in Ids(tickets) : tickets[k].checked_in => tickets[k].qr_code_data # NoQR

\* ticket k exists and is not cancelled
Live(k) == k \in Ids(tickets) /\ ~tickets[k].deleted

\* u has a role the venue endpoints admit
Staff(u) == Role(u) \in {"admin", "organizer"}

\* the event of ticket k's order
EventOf(k) == orders[tickets[k].order_id].event_id

\* u is an admin or the organizer of ticket k's event
Authorized(u, k) ==
    Role(u) = "admin" \/ (Role(u) = "organizer" /\ organizer_id(EventOf(k)) = u)

\* C14: for a ticket under a completed order, a check-in by an admin or the
\* event's organizer succeeds when the ticket is not checked in and sets
\* checked_in, validated_at and validated_by; a check-in of a ticket that is
\* checked in fails, with the already-checked-in error for every caller the
\* endpoint admits, and leaves the ticket as it is
C14_CheckInOnce ==
    [][\A u \in VenueUsers, k \in Ids(tickets) :
          (Live(k) /\ check_in_ticket(u, k)) =>
             /\ (/\ ~tickets[k].checked_in
                 /\ orders[tickets[k].order_id].payment_status = "completed"
                 /\ Authorized(u, k))
                => /\ response' = "OK"
                   /\ tickets'[k].checked_in
                   /\ tickets'[k].validated_at # NULL
                   /\ tickets'[k].validated_by = u
             /\ tickets[k].checked_in
                => /\ UNCHANGED tickets
                   /\ response' \in {"AlreadyCheckedIn", "Forbidden"}
                   /\ Staff(u) => response' = "AlreadyCheckedIn"]_vars

\* a second check-in of a checked-in ticket was refused
C14_Witness ==
    /\ response = "AlreadyCheckedIn"
    /\ \E k \in Ids(tickets) :
          /\ tickets[k].checked_in
          /\ tickets[k].validated_at # NULL
          /\ tickets[k].validated_by # NULL

\* C15: a check-in of a ticket whose order is not completed never succeeds
\* and leaves the ticket unchanged; for a caller the endpoint admits and a
\* ticket that is not checked in yet the error is payment-not-confirmed
C15_CheckInNeedsCompletedOrder ==
    [][\A u \in VenueUsers, k \in Ids(tickets) :
          (/\ Live(k)
           /\ orders[tickets[k].order_id].payment_status # "completed"
           /\ check_in_ticket(u, k))
          => /\ UNCHANGED tickets
             /\ response' # "OK"
             /\ (Staff(u) /\ ~tickets[k].checked_in)
                   => response' = "PaymentNotConfirmed"]_vars

\* a check-in was refused for a ticket of a refunded order
C15_Witness ==
    /\ response = "PaymentNotConfirmed"
    /\ \E k \in Ids(tickets) :
          /\ ~tickets[k].deleted
          /\ ~tickets[k].checked_in
          /\ orders[tickets[k].order_id].payment_status = "refunded"

\* C16: a check-in or check-out by a principal who is neither an admin nor
\* the organizer of the ticket's event fails and changes no ticket; the
\* failure is Forbidden for a caller without a staff role, and for an
\* organizer of another event whenever the request would otherwise go through
C16_OnlyAdminOrOrganizerValidates ==
    [][\A u \in VenueUsers, k \in Ids(tickets) :
          (Live(k) /\ ~Authorized(u, k)) =>
             /\ check_in_ticket(u, k)
                => /\ UNCHANGED tickets
                   /\ response' # "OK"
                   /\ (\/ ~Staff(u)
                       \/ /\ ~tickets[k].checked_in
                          /\ orders[tickets[k].order_id].payment_status = "completed")
                      => response' = "Forbidden"
             /\ check_out_ticket(u, k)
                => /\ UNCHANGED tickets
                   /\ response' # "OK"
                   /\ (\/ ~Staff(u)
                       \/ tickets[k].checked_in /\ ~tickets[k].checked_out)
                      => response' = "Forbidden"]_vars

\* a request was refused as Forbidden while a ticket is checked in and not
\* checked out (a check-out by an organizer of another event ends so)
C16_Witness ==
    /\ response = "Forbidden"
    /\ \E k \in Ids(tickets) :
          /\ ~tickets[k].deleted
          /\ tickets[k].checked_in
          /\ ~tickets[k].checked_out
          /\ orders[tickets[k].order_id].payment_status = "completed"

\* C17: a check-out by a caller the endpoint admits fails with NotCheckedIn
\* for a ticket that is not checked in and with AlreadyCheckedOut for one
\* that is checked in and checked out, the ticket unchanged; by an admin or
\* the event's organizer on a checked-in ticket that is not checked out it
\* sets checked_out and nothing else
C17_CheckOutOutcomes ==
    [][\A u \in VenueUsers, k \in Ids(tickets) :
          (Live(k) /\ Staff(u) /\ check_out_ticket(u, k)) =>
             /\ ~tickets[k].checked_in
                => (response' = "NotCheckedIn" /\ UNCHANGED tickets)
             /\ (tickets[k].checked_in /\ tickets[k].checked_out)
                => (response' = "AlreadyCheckedOut" /\ UNCHANGED tickets)
             /\ (tickets[k].checked_in /\ ~tickets[k].checked_out /\ Authorized(u, k))
                => /\ response' = "OK"
                   /\ tickets' = [tickets EXCEPT ![k].checked_out = TRUE]]_vars

\* a second check-out of a checked-in, checked-out ticket was refused
C17_Witness ==
    /\ response = "AlreadyCheckedOut"
    /\ \E k \in Ids(tickets) :
          /\ tickets[k].checked_in
          /\ tickets[k].checked_out
          /\ tickets[k].validated_by # NULL

\* C18: every ticket that is checked out is checked in
C18_CheckedOutImpliesCheckedIn ==
    \A k \in Ids(tickets) : tickets[k].checked_out => tickets[k].checked_in

\* C20: a transfer of a ticket that is checked in or has validated_at set
\* fails, creates no order and leaves the ticket's order_id as it is; the
\* error is already-validated when the caller owns the ticket or is an admin
\* and names another existing user
C20_NoTransferAfterValidation ==
    [][\A u \in VenueUsers, k \in Ids(tickets), n \in TransferTargets :
          (/\ Live(k)
           /\ tickets[k].checked_in \/ tickets[k].validated_at # NULL
           /\ transfer_ticket(u, k, n))
          => /\ UNCHANGED <<tickets, orders>>
             /\ response' # "OK"
             /\ (/\ orders[tickets[k].order_id].user_id = u \/ Role(u) = "admin"
                 /\ n # NULL
                 /\ n # u)
                => response' = "AlreadyValidated"]_vars

\* a transfer of a checked-in ticket was refused
C20_Witness ==
    /\ response = "AlreadyValidated"
    /\ Len(orders) = 1
    /\ \E k \in Ids(tickets) : tickets[k].checked_in /\ tickets[k].order_id = 1

\* what a successful transfer of ticket k to user n does, apart from whose
\* order the ticket leaves: the ticket row keeps its place and every field
\* but order_id, one order is appended, it has total_price 0, belongs to n
\* and is for the event of the ticket's old order, and the ticket's order_id
\* names it
TransferEffect(k, n) ==
    LET new == Len(orders) + 1 IN
    /\ Len(tickets') = Len(tickets)
    /\ tickets' = [tickets EXCEPT ![k].order_id = new]
    /\ Len(orders') = new
    /\ \A o \in Ids(orders) : orders'[o] = orders[o]
    /\ orders'[new].total_price = 0
    /\ orders'[new].user_id = n
    /\ orders'[new].event_id = EventOf(k)
    /\ {o \in Ids(orders') : tickets'[k].order_id = o} = {new}

\* C21 as stated: a successful transfer of an issued ticket that is not
\* checked in has the effect above and leaves the ticket in no order of its
\* previous owner
C21_TransferLeavesPreviousOwner ==
    [][\A u \in VenueUsers, k \in Ids(tickets), n \in TransferTargets :
          (/\ Live(k)
           /\ tickets[k].qr_code_data # NoQR
           /\ ~tickets[k].checked_in
           /\ transfer_ticket(u, k, n)
           /\ response' = "OK")
          => /\ TransferEffect(k, n)
             /\ orders'[tickets'[k].order_id].user_id
                   # orders[tickets[k].order_id].user_id]_vars

\* C21: a successful transfer of an issued ticket that is not checked in has
\* the effect above; afterwards the ticket is in an order of its previous
\* owner exactly when the new owner is the previous owner (the handler
\* refuses a transfer to the caller, and an admin is not the owner)
C21_TransferMovesTicket ==
    [][\A u \in VenueUsers, k \in Ids(tickets), n \in TransferTargets :
          (/\ Live(k)
           /\ tickets[k].qr_code_data # NoQR
           /\ ~tickets[k].checked_in
           /\ transfer_ticket(u, k, n)
           /\ response' = "OK")
          => /\ TransferEffect(k, n)
             /\ (orders'[tickets'[k].order_id].user_id
                    = orders[tickets[k].order_id].user_id)
                <=> (n = orders[tickets[k].order_id].user_id)]_vars

\* an issued ticket was transferred from user 1 to the admin's account
C21_Witness ==
    /\ response = "OK"
    /\ Len(orders) = 2
    /\ orders[2].total_price = 0
    /\ orders[2].user_id = 3
    /\ \E k \in Ids(tickets) :
          /\ tickets[k].order_id = 2
          /\ tickets[k].qr_code_data # NoQR
          /\ ~tickets[k].checked_in

\* C22: a transfer_ticket request, whatever it answers, leaves every ticket
\* type row as it is (quantity, available_quantity, sold_quantity), creates
\* and removes no ticket and changes no ticket's ticket_type_id
C22_TransferKeepsInventory ==
    [][\A u \in VenueUsers, k \in 1..VenueTickets, n \in TransferTargets :
          transfer_ticket(u, k, n)
          => /\ UNCHANGED ticket_types
             /\ Len(tickets') = Len(tickets)
             /\ \A j \in Ids(tickets) :
                   tickets'[j].ticket_type_id = tickets[j].ticket_type_id]_vars

\* a ticket was transferred and its type still counts every unit as sold
C22_Witness ==
    /\ response = "OK"
    /\ Len(orders) = 2
    /\ \E k \in Ids(tickets) : tickets[k].order_id = 2
    /\ ticket_types[1].available_quantity = 0
    /\ ticket_types[1].sold_quantity = ticket_types[1].quantity

\* C23: a transfer by a principal who is neither an admin nor the organizer
\* of the ticket's event does not succeed and leaves the ticket in its order
C23_OnlyAdminOrOrganizerTransfers ==
    [][\A u \in VenueUsers, k \in Ids(tickets), n \in TransferTargets :
          (Live(k) /\ ~Authorized(u, k) /\ transfer_ticket(u, k, n))
          => /\ response' # "OK"
             /\ tickets'[k].order_id = tickets[k].order_id]_vars

\* C24: a transfer succeeds only for a ticket that has its QR payload and
\* whose order is completed
C24_TransferOnlyIssued ==
    [][\A u \in VenueUsers, k \in Ids(tickets), n \in TransferTargets :
          (Live(k) /\ transfer_ticket(u, k, n) /\ response' = "OK")
          => /\ orders[tickets[k].order_id].payment_status = "completed"
             /\ tickets[k].qr_code_data # NoQR]_vars

\* a step of the payment webhook
WebhookStep ==
    \E pi \in IntentInputs :
        wh_succeeded(pi) \/ wh_payment_failed(pi) \/ wh_canceled(pi)

\* C25: an order starts with payment_status pending, and the payment_status
\* of an order changes only in a step of the payment webhook or in a
\* cancel_order of a pending order
C25_StatusOnlyThroughPipeline ==
    [][/\ \A o \in Ids(orders') \ Ids(orders) :
             orders'[o].payment_status = "pending"
       /\ \A o \in Ids(orders) :
             orders'[o].payment_status # orders[o].payment_status
             => \/ WebhookStep
                \/ /\ orders[o].payment_status = "pending"
                   /\ \E u \in Users : cancel_order(u, o)]_vars

\* C26: a successful cancel_order leaves none of the order's tickets active
\* and gives each ticket type one unit back for every ticket cancelled
C26_CancelOrderReleases ==
    [][\A u \in Users, o \in Ids(orders) :
          (/\ ~orders[o].deleted
           /\ cancel_order(u, o)
           /\ response' = "OK")
          => /\ \A k \in OrderTickets(o) : tickets'[k].deleted
             /\ \A t \in Ids(ticket_types) :
                  LET n == Cardinality(OrderTicketsOfType(o, t)) IN
                  /\ ticket_types'[t].available_quantity
                        = ticket_types[t].available_quantity + n
                  /\ ticket_types'[t].sold_quantity
                        = ticket_types[t].sold_quantity - n]_vars

\* the payment transactions of order o
PaymentsOf(o) == {i \in Ids(transactions) : transactions[i].order_id = o}

\* C27: every order has at most one payment transaction, whatever the
\* interleaving of the create_payment_intent requests for it
C27_OneTransactionPerOrder ==
    \A o \in Ids(orders) : Cardinality(PaymentsOf(o)) <= 1

\* the scan was decoded: staff called validate_ticket on the payload
Decoded == scan.decoded.kind # "none"

\* C28: the payload generate_ticket_qr_code encodes decodes to a dict that
\* holds each identity field with the type and value that went in
C28_QRRoundTrip ==
    (scan.fields # <<>> /\ Decoded)
    => /\ scan.decoded.kind = "ok"
       /\ scan.decoded.qr_data.kind = "object"
       /\ \A m \in 1..Len(scan.fields) :
             LET out == Get(scan.decoded.qr_data, scan.fields[m].key, NoneValue)
             IN /\ out.kind = scan.fields[m].val.kind
                /\ out.v = scan.fields[m].val.v

\* a two-digit ticket id and a type name of a quote and a backslash went
\* through the codec
C28_Witness ==
    /\ scan.fields # <<>>
    /\ scan.decoded.kind = "ok"
    /\ scan.fields[1].val.v = 10
    /\ scan.fields[5].val.v = <<"\"", "\\">>

\* the payload is not well-formed JSON, or is not a dict that has every
\* required field
BadPayload(s) ==
    LET r == loads(s)
    IN \/ ~r.ok
       \/ r.v.kind # "object"
       \/ \E field \in required_fields : ~HasKey(r.v, field)

\* C29: when staff validate a payload that is not well-formed or lacks a
\* required field, decode_ticket_qr_code raises ValueError and
\* validate_ticket answers valid=false with the database unchanged
C29_BadPayloadRejected ==
    [][\A u \in VenueUsers, event_id \in EventInputs :
          (/\ Role(u) \in {"admin", "organizer"}
           /\ scan.payload # <<>>
           /\ BadPayload(scan.payload)
           /\ validate_ticket(u, event_id))
          => /\ scan'.decoded.kind = "ValueError"
             /\ scan'.answer = "invalid"
             /\ UNCHANGED db]_vars

\* the payload is a dict with every required field and a version other
\* than "1.0"
UnsupportedVersionPayload(s) ==
    LET r == loads(s)
    IN /\ r.ok
       /\ r.v.kind = "object"
       /\ \A field \in required_fields : HasKey(r.v, field)
       /\ HasKey(r.v, K_version)
       /\ LET version == Get(r.v, K_version, NoneValue)
          IN ~(version.kind = "str" /\ version.v = V_1_0)

OtherEvent(qr_data, e) ==
    /\ qr_data.kind = "object"
    /\ LET event_id == Get(qr_data, K_event_id, NoneValue)
       IN ~(event_id.kind = "int" /\ event_id.v = e)

\* C31: a scan whose decoded payload names another event than the request
\* is answered invalid, whatever the other fields are
C31_OtherEventInvalid ==
    (scan.decoded.kind = "ok" /\ OtherEvent(scan.decoded.qr_data, scan.event_id))
    => scan.answer = "invalid"

\* a generated payload of the issued ticket 1 under the completed order 1,
\* naming event 2, was scanned for event 1
C31_Witness ==
    /\ scan.fields # <<>>
    /\ scan.decoded.kind = "ok"
    /\ scan.fields[1].val.v = 1
    /\ scan.fields[2].val.v = 1
    /\ scan.fields[3].val.v = 2
    /\ scan.event_id = 1
    /\ orders[tickets[1].order_id].payment_status = "completed"
    /\ scan.answer = "invalid"

\* C39: a scan is answered valid only if the payload's order_id, event_id
\* and user_id are those of the stored ticket's order
C39_PayloadBoundToTicket ==
    scan.answer = "valid"
    => LET qr_data == scan.decoded.qr_data
           ticket_id == Get(qr_data, K_ticket_id, NoneValue)
           order_id == Get(qr_data, K_order_id, NoneValue)
           event_id == Get(qr_data, K_event_id, NoneValue)
           user_id == Get(qr_data, K_user_id, NoneValue)
           o == tickets[ticket_id.v].order_id
       IN /\ order_id.kind = "int" /\ order_id.v = o
          /\ event_id.kind = "int" /\ event_id.v = orders[o].event_id
          /\ user_id.kind = "int" /\ user_id.v = orders[o].user_id

\* C32: a check_in_ticket request that succeeds finds the ticket not checked
\* in, so of the concurrent requests for a ticket one succeeds and
\* validated_at and validated_by are written once
C32_OneCheckInSucceeds ==
    [][\A p \in Callers :
          (gate[p].state = "checkin" /\ ci_commit(p))
          => ~tickets[gate[p].ticket_id].checked_in]_vars

\* C33: under concurrent cancel_ticket and check_in_ticket requests no ticket
\* is both cancelled and checked in
C33_NeverCancelledAndCheckedIn ==
    \A k \in Ids(tickets) : ~(tickets[k].deleted /\ tickets[k].checked_in)

\* C34: with one request at a time, cancel_ticket on a checked-in ticket
\* fails and leaves the tickets as they are; every cancel_ticket,
\* transfer_ticket, check_in_ticket and check_out_ticket on a cancelled
\* ticket answers NotFound (check-in and check-out answer Forbidden to a
\* caller who is neither admin nor organizer, whose role is tested first)
\* and changes nothing; and no ticket is both cancelled and checked in
C34_CancelledExcludesCheckedIn ==
    [][/\ \A k \in Ids(tickets') : ~(tickets'[k].deleted /\ tickets'[k].checked_in)
       /\ \A u \in VenueUsers, k \in Ids(tickets) :
            /\ (/\ ~tickets[k].deleted
                /\ tickets[k].checked_in
                /\ cancel_ticket(u, k))
               => (response' # "OK" /\ UNCHANGED db)
            /\ tickets[k].deleted
               => /\ cancel_ticket(u, k)
                     => (response' = "NotFound" /\ UNCHANGED db)
                  /\ \A n \in TransferTargets :
                        transfer_ticket(u, k, n)
                        => (response' = "NotFound" /\ UNCHANGED db)
                  /\ (check_in_ticket(u, k) \/ check_out_ticket(u, k))
                     => /\ response' = IF Staff(u) THEN "NotFound"
                                       ELSE "Forbidden"
                        /\ UNCHANGED db]_vars

\* a request on the cancelled ticket 1 was answered NotFound
C34_Witness ==
    /\ tickets[1].deleted
    /\ ~tickets[1].checked_in
    /\ response = "NotFound"

\* C35: no request of a caller who is neither admin nor the organizer of the
\* ticket's event changes the ticket's checked_in or checked_out, and
\* checked_in is true exactly when validated_at and validated_by are set
C35_FlagsOnlyByStaff ==
    [][/\ \A k \in Ids(tickets') :
             tickets'[k].checked_in
             <=> (tickets'[k].validated_at # NULL /\ tickets'[k].validated_by # NULL)
       /\ \A u \in VenueUsers, k \in Ids(tickets) :
             (/\ ~Authorized(u, k)
              /\ \/ check_in_ticket(u, k)
                 \/ check_out_ticket(u, k)
                 \/ \E d \in UpdateInputs : update_ticket(u, k, d)
                 \/ \E n \in TransferTargets : transfer_ticket(u, k, n))
             => /\ tickets'[k].checked_in = tickets[k].checked_in
                /\ tickets'[k].checked_out = tickets[k].checked_out]_vars

\* a succeeded notification has been applied to order o and stands
Paid(o) ==
    \E i \in Ids(transactions) :
        transactions[i].order_id = o /\ transactions[i].status = "succeeded"

\* C36: check_in_ticket checks ticket 1 in only when a succeeded payment
\* notification has been applied to order 1, under which it was reserved,
\* and that payment has not been refunded
C36_EntryNeedsPayment ==
    [][\A u \in Users :
          (/\ ~tickets[1].checked_in
           /\ check_in_ticket(u, 1)
           /\ tickets'[1].checked_in)
          => Paid(1)]_vars

\* C37: a succeeded notification for a payment intent that
\* create_payment_intent issued for order 1 leaves order 1 completed, also
\* when a later create_payment_intent replaced the stored intent id
C37_IssuedIntentIsApplied ==
    [][\A pi \in 1..intents :
          wh_succeeded(pi) => orders'[1].payment_status = "completed"]_vars

\* the order was refunded, or cancelled by cancel_order
Terminal(o) ==
    \/ orders[o].payment_status = "refunded"
    \/ orders[o].payment_status = "cancelled" /\ orders[o].deleted

\* C38: no payment notification changes the payment_status of a refunded or
\* cancelled order, or writes a QR payload to one of its tickets
C38_RefundedAndCancelledAreTerminal ==
    [][\A o \in Ids(orders) :
          (/\ Terminal(o)
           /\ \/ WebhookStep
              \/ wh_issue_tickets)
          => /\ orders'[o].payment_status = orders[o].payment_status
             /\ \A k \in OrderTickets(o) :
                   tickets'[k].qr_code_data = tickets[k].qr_code_data]_vars
====
